---- MODULE Spec2Model ----
(***************************************************************************)
(* Model of the git-annex tool wrapper (tools/git_annex.py) and of the     *)
(* tool handle it is built on.                                             *)
(*                                                                         *)
(* A path is a sequence of components; an absolute path starts with the    *)
(* component "/".  The empty sequence is the empty string.  The file       *)
(* system maps absolute, normalised paths to entries.                      *)
(***************************************************************************)
EXTENDS Naturals, Integers, Sequences, FiniteSets, TLC

VARIABLES
    fs,           \* the file system: node path -> [kind, target]
    cwd,          \* the process working directory (absolute node path)
    pc,           \* position inside the running get/drop call, "idle" between calls
    op,           \* the running (or last finished) operation: "get" / "drop" / "none"
    path0,        \* the path the caller passed
    f,            \* the local f of get/drop (reassigned by _get_link_into_annex)
    link_target,  \* the local link_target (None is <<>>)
    hops,         \* iterations of the while loop that followed a link
    saved_wd,     \* working directory saved by pushd_popd
    exc,          \* exception in flight inside the with block
    result,       \* how the last call ended: "none" while running
    spawned,      \* child processes started by the call: <<[sub, arg, cwd]>>
    fs0,          \* file system when the call began
    cwd0,         \* working directory when the call began
    prev,         \* summary of the call before this one
    env,          \* per install method: [present, installable, verifies]
    attempted,    \* install methods whose attempt_install already ran
    cachedPath,   \* the tool handle's memoised executable path (None is "")
    methods,      \* the tool handle's install methods, in declared order
    stubs,        \* install methods that are always satisfiable
    returned,     \* paths returned by install_and_get_path so far
    cacheWrites,  \* number of assignments to the cached path
    verifiedAll,  \* paths that passed a verify probe
    workAfterCache, \* a check/install/verify ran although the path was cached
    lastTrace,    \* the checks/installs/probes run by the last resolution
    args,         \* the program and arguments given to _make_cmd / _run
    cmd,          \* the command string _make_cmd built
    cres,         \* how the last _make_cmd / _run call ended
    remote,       \* the name, type and attributes given to initremote
    files,        \* contents of the files rmdup works on: name -> content
    files0,       \* the contents when rmdup was called
    rpc,          \* position inside the running rmdup call
    ri,           \* index of the for loop at the end of rmdup
    rresult,      \* how the rmdup call ended
    outPair,      \* the caller's output pair
    outUnpaired,  \* the unpaired output (None is <<>> until one is made up)
    tmp1OutPair,  \* the temporary names passed under -drm_op
    tmp2OutPair,  \* the temporary names passed under -opfq
    cmdline,      \* the argument vector rmdup runs
    ntemp,        \* temporary file names handed out so far
    writable,     \* the output names a copy can be written to
    outDev        \* the file system the caller's outputs live on

annexVars == <<fs, cwd, pc, op, path0, f, link_target, hops, saved_wd, exc,
               result, spawned, fs0, cwd0, prev>>
toolVars  == <<env, attempted, cachedPath, methods, stubs>>
histVars  == <<returned, cacheWrites, verifiedAll, workAfterCache, lastTrace>>
cmdVars   == <<args, cmd, cres, remote>>
rmdupVars == <<files, files0, rpc, ri, rresult, outPair, outUnpaired, tmp1OutPair,
               tmp2OutPair, cmdline, ntemp, writable, outDev>>
extVars   == <<cmdVars, rmdupVars>>
vars      == <<annexVars, toolVars, histVars, extVars>>

----------------------------------------------------------------------------
(* Bounds *)

\* symlinks the kernel follows in one lookup before it gives up with ELOOP
MaxSymlinkDepth == 4
\* cap on the hop counter of the chain-resolution loop
MaxHops == 10
\* temporary file names the process may ask for
MaxTemps == 5

----------------------------------------------------------------------------
(* Paths: os.path on sequences of components *)

Root   == <<"/">>
NoNode == <<>>

isabs(p) == p # <<>> /\ p[1] = "/"

dirname(p) ==
    IF p = <<>> \/ p = Root THEN p ELSE SubSeq(p, 1, Len(p) - 1)

basename(p) ==
    IF p = <<>> \/ p = Root THEN <<>> ELSE <<p[Len(p)]>>

join(a, b) == IF isabs(b) THEN b ELSE a \o b

RECURSIVE NormAcc(_, _)
NormAcc(acc, rest) ==
    IF rest = <<>> THEN acc
    ELSE LET c == Head(rest) IN
         IF c = ".."
         THEN IF acc = Root THEN NormAcc(acc, Tail(rest))
              ELSE IF acc = <<>> \/ acc[Len(acc)] = ".."
                   THEN NormAcc(Append(acc, c), Tail(rest))
                   ELSE NormAcc(SubSeq(acc, 1, Len(acc) - 1), Tail(rest))
         ELSE NormAcc(Append(acc, c), Tail(rest))

normpath(p) == NormAcc(<<>>, p)

abspath(wd, p) == normpath(join(wd, p))

\* '.git/annex/objects/' in link_target: the three components in a row,
\* followed by a slash (so by one more component)
HasMarker(t) ==
    \E i \in 1..Len(t) :
        /\ i + 3 <= Len(t)
        /\ t[i] = ".git" /\ t[i+1] = "annex" /\ t[i+2] = "objects"

----------------------------------------------------------------------------
(* The file system and the kernel's path lookup *)

Dir      == [kind |-> "dir",  target |-> <<>>]
File     == [kind |-> "file", target |-> <<>>]
Link(t)  == [kind |-> "link", target |-> t]

Kind(fsys, n) == IF n \in DOMAIN fsys THEN fsys[n].kind ELSE "absent"

Parent(n) == IF n = Root THEN Root ELSE SubSeq(n, 1, Len(n) - 1)

\* Walk the components of rest from directory cur; the last component is
\* followed when it is a symlink only if follow.  NoNode is an error
\* (ENOENT, ENOTDIR, ELOOP); a missing last component yields its own path.
RECURSIVE Walk(_, _, _, _, _)
Walk(fsys, cur, rest, follow, depth) ==
    IF cur = NoNode THEN NoNode
    ELSE IF rest = <<>> THEN cur
    ELSE LET c == Head(rest)
             r == Tail(rest)
         IN  IF c = "/" THEN Walk(fsys, Root, r, follow, depth)
             ELSE IF Kind(fsys, cur) # "dir" THEN NoNode
             ELSE IF c = ".." THEN Walk(fsys, Parent(cur), r, follow, depth)
             ELSE LET nxt == Append(cur, c) IN
                  IF Kind(fsys, nxt) = "link" /\ (r # <<>> \/ follow)
                  THEN IF depth = 0 THEN NoNode
                       ELSE Walk(fsys, cur, fsys[nxt].target \o r, follow, depth - 1)
                  ELSE Walk(fsys, nxt, r, follow, depth)

lstat(fsys, wd, p) == Walk(fsys, wd, p, FALSE, MaxSymlinkDepth)
stat(fsys, wd, p)  == Walk(fsys, wd, p, TRUE,  MaxSymlinkDepth)

islink(fsys, wd, p)   == p # <<>> /\ Kind(fsys, lstat(fsys, wd, p)) = "link"
isfile(fsys, wd, p)   == p # <<>> /\ Kind(fsys, stat(fsys, wd, p)) = "file"
isdir(fsys, wd, p)    == p # <<>> /\ Kind(fsys, stat(fsys, wd, p)) = "dir"
readlink(fsys, wd, p) == fsys[lstat(fsys, wd, p)].target

----------------------------------------------------------------------------
(* The working tree the calls run against *)

W       == <<"/", "w">>
Data    == <<"/", "w", "data">>
ObjDir  == <<"/", "w", ".git", "annex", "objects", "ab">>
Obj1    == ObjDir \o <<"k1">>
Obj2    == ObjDir \o <<"k2">>
Objects == {Obj1, Obj2}

\* everything but the two store objects, which come and go
Tree ==
    (Root                                          :> Dir) @@
    (W                                             :> Dir) @@
    (Data                                          :> Dir) @@
    (<<"/", "w", ".git">>                          :> Dir) @@
    (<<"/", "w", ".git", "annex">>                 :> Dir) @@
    (<<"/", "w", ".git", "annex", "objects">>      :> Dir) @@
    (ObjDir                                        :> Dir) @@
    \* data/s -> ../.git/annex/objects/ab/k1   (relative link into the store)
    (Data \o <<"s">>  :> Link(<<"..", ".git", "annex", "objects", "ab", "k1">>)) @@
    \* data/t -> s                             (one hop before the store link)
    (Data \o <<"t">>  :> Link(<<"s">>)) @@
    \* u -> /w/data/t                          (two hops, the first absolute)
    (W \o <<"u">>     :> Link(Data \o <<"t">>)) @@
    \* data/a -> /w/.git/annex/objects/ab/k2   (absolute link into the store)
    (Data \o <<"a">>  :> Link(Obj2)) @@
    \* data/c1 -> c2 -> c1                     (a cycle without the marker)
    (Data \o <<"c1">> :> Link(<<"c2">>)) @@
    (Data \o <<"c2">> :> Link(<<"c1">>)) @@
    \* data/r is a plain file, data/n -> r, data/dg -> missing
    (Data \o <<"r">>  :> File) @@
    (Data \o <<"n">>  :> Link(<<"r">>)) @@
    (Data \o <<"dg">> :> Link(<<"missing">>)) @@
    \* data/dn -> nodir/x                      (dangling, its directory missing too)
    (Data \o <<"dn">> :> Link(<<"nodir", "x">>))

WithObjects(present) ==
    [o \in present |-> File] @@ Tree

LinkNodes(fsys) == {n \in DOMAIN fsys : fsys[n].kind = "link"}

NumLinks == Cardinality(LinkNodes(Tree))

\* the paths a caller passes, as they are spelled from each working directory
CallerPaths(wd) ==
    IF wd = W
    THEN { <<"data", "s">>, <<"data", "t">>, <<"u">>, <<"data", "a">>,
           <<"data", "c1">>, <<"data", "n">>, <<"data", "dg">>, <<"data", "dn">>,
           <<"data", "r">>, <<"data">>, <<"data", "missing">> }
    ELSE { <<"s">>, <<"t">>, <<"..", "u">>, Data \o <<"a">>,
           <<"c1">>, <<"n">>, <<"dg">>, <<"dn">>,
           <<"r">>, <<"..", "data">>, <<"missing">> }

CwdSet == {W, Data}

----------------------------------------------------------------------------
(* The tool handle: ordered install methods and the memoised path *)

NoPath == ""

\* GitAnnexTool.__init__: a single conda package
GitAnnexMethods ==
    << [kind |-> "CondaPackage", path |-> "conda/vngs-git-annex-env/bin/git-annex"] >>

\* an __init__ that appends the two methods the other way round
MvicunaMethods_swapped ==
    << [kind |-> "PrexistingUnixCommand", path |-> "binaries/mvicuna/linux64/mvicuna"],
       [kind |-> "CondaPackage",          path |-> "conda/bin/mvicuna"] >>

\* MvicunaTool.__init__: a conda package, then the bundled binary
MvicunaMethods ==
    << [kind |-> "CondaPackage",          path |-> "conda/bin/mvicuna"],
       [kind |-> "PrexistingUnixCommand", path |-> "binaries/mvicuna/linux64/mvicuna"] >>

EnvStates == [present : BOOLEAN, installable : BOOLEAN, verifies : BOOLEAN]

Satisfied == [present |-> TRUE, installable |-> FALSE, verifies |-> TRUE]

\* the environments get and drop are run in: the tool is there, or can be
\* installed, or cannot be had
EnvChoices ==
    { Satisfied,
      [present |-> FALSE, installable |-> TRUE,  verifies |-> TRUE],
      [present |-> FALSE, installable |-> FALSE, verifies |-> FALSE] }

Ev(what, i) == [ev |-> what, m |-> i]

\* Try the methods from index i on, in declared order.  A method is usable
\* if it is already installed, or if its install action (run at most once
\* per process) makes it so; a usable method is then probed.
RECURSIVE TryMethods(_, _, _, _, _)
TryMethods(ms, i, e, att, tr) ==
    IF i > Len(ms)
    THEN [path |-> NoPath, env |-> e, attempted |-> att, trace |-> tr]
    ELSE LET doInstall == ~e[i].present /\ i \notin att
             e1   == IF doInstall /\ e[i].installable
                     THEN [e EXCEPT ![i].present = TRUE] ELSE e
             att1 == IF doInstall THEN att \cup {i} ELSE att
             tr1  == (tr \o <<Ev("check", i)>>)
                        \o (IF doInstall THEN <<Ev("install", i), Ev("check", i)>> ELSE <<>>)
             usable == e1[i].present
             tr2  == IF usable THEN Append(tr1, Ev("verify", i)) ELSE tr1
         IN  IF usable /\ e1[i].verifies
             THEN [path |-> ms[i].path, env |-> e1, attempted |-> att1, trace |-> tr2]
             ELSE TryMethods(ms, i + 1, e1, att1, tr2)

\* a handle that resolves again on every call
install_and_get_path_nomemo(ms, cached, e, att) ==
    LET r == TryMethods(ms, 1, e, att, <<>>)
    IN  [path |-> r.path, env |-> r.env, attempted |-> r.attempted,
         trace |-> r.trace, cached |-> r.path, wrote |-> r.path # NoPath]

\* Tool.install_and_get_path: the cached path if there is one, else the
\* first method that verifies, whose path is cached; NoPath is ToolUnavailable
install_and_get_path(ms, cached, e, att) ==
    IF cached # NoPath
    THEN [path |-> cached, env |-> e, attempted |-> att, trace |-> <<>>,
          cached |-> cached, wrote |-> FALSE]
    ELSE LET r == TryMethods(ms, 1, e, att, <<>>)
         IN  [path |-> r.path, env |-> r.env, attempted |-> r.attempted,
              trace |-> r.trace, cached |-> r.path, wrote |-> r.path # NoPath]

\* what one resolution leaves in the handle, and what it is remembered by
Resolved(r) ==
    /\ env' = r.env
    /\ attempted' = r.attempted
    /\ cachedPath' = r.cached
    /\ UNCHANGED <<methods, stubs>>
    /\ returned' = IF r.path = NoPath THEN returned ELSE returned \cup {r.path}
    /\ cacheWrites' = IF r.wrote THEN cacheWrites + 1 ELSE cacheWrites
    /\ verifiedAll' = verifiedAll \cup
           {ms_path \in {methods[i].path : i \in 1..Len(methods)} :
               \E k \in 1..Len(r.trace) :
                   /\ r.trace[k].ev = "verify"
                   /\ methods[r.trace[k].m].path = ms_path
                   /\ r.env[r.trace[k].m].verifies}
    /\ workAfterCache' = (workAfterCache \/ (cachedPath # NoPath /\ r.trace # <<>>))
    /\ lastTrace' = r.trace

----------------------------------------------------------------------------
(* The backing tool, as the wrapper relies on it *)

\* git-annex <sub> <base>, run in directory wd: the outcomes the child can
\* have.  For an annexed file (a link whose target has the store marker) get
\* makes the object the link resolves to a regular file and drop removes it;
\* either may fail, or exit with status 0 having found nothing to do, and
\* then changes nothing.  Any other name is left alone.
AnnexOutcomes(sub, base, wd, fsys) ==
    LET n   == lstat(fsys, wd, base)
        obj == stat(fsys, wd, base)
        annexed == Kind(fsys, n) = "link" /\ HasMarker(fsys[n].target) /\ obj # NoNode
        done == IF ~annexed THEN fsys
                ELSE IF sub = "get"
                     THEN (obj :> File) @@ fsys
                     ELSE IF sub = "drop"
                          THEN [m \in (DOMAIN fsys) \ {obj} |-> fsys[m]]
                          ELSE fsys
    IN  { [fs |-> done, exit |-> 0], [fs |-> fsys, exit |-> 0],
          [fs |-> fsys, exit |-> 1] }

\* an execute that runs the first method's executable when none was resolved
execute_unchecked(sub, arg, sofar) ==
    LET r == install_and_get_path(methods, cachedPath, env, attempted) IN
    /\ Resolved(r)
    /\ \E o \in AnnexOutcomes(sub, arg, cwd, fs) :
            /\ fs' = o.fs
            /\ spawned' = Append(sofar,
                   [prog |-> IF r.path = NoPath THEN methods[1].path ELSE r.path,
                    sub |-> sub, arg |-> arg, cwd |-> cwd, exit |-> o.exit])
            /\ exc' = IF o.exit = 0 THEN "none" ELSE "CalledProcessError"

\* GitAnnexTool.execute: resolve the tool, then run it with the arguments;
\* a failed resolution spawns nothing
execute(sub, arg, sofar) ==
    LET r == install_and_get_path(methods, cachedPath, env, attempted) IN
    /\ Resolved(r)
    /\ IF r.path = NoPath
       THEN /\ exc' = "ToolUnavailable"
            /\ spawned' = sofar
            /\ UNCHANGED fs
       ELSE \E o \in AnnexOutcomes(sub, arg, cwd, fs) :
            /\ fs' = o.fs
            /\ spawned' = Append(sofar,
                   [prog |-> r.path, sub |-> sub, arg |-> arg, cwd |-> cwd,
                    exit |-> o.exit])
            /\ exc' = IF o.exit = 0 THEN "none" ELSE "CalledProcessError"

----------------------------------------------------------------------------
(* util.file.pushd_popd: the scoped change of working directory *)

\* entering the with block: the directory to change to, NoNode if chdir fails
pushd_popd_enter(fsys, wd, target) ==
    IF isdir(fsys, wd, target) THEN stat(fsys, wd, target) ELSE NoNode

\* a pushd_popd without try/finally: an exception skips the restore
pushd_popd_exit_nofinally(saved, now, e) == IF e = "none" THEN saved ELSE now

\* leaving the with block, normally or by an exception e
pushd_popd_exit(saved, now, e) == saved

----------------------------------------------------------------------------
(* get and drop *)

NoCall == [op |-> "none", path |-> <<>>, result |-> "none", spawned |-> <<>>,
           fs0 |-> Tree, cwd0 |-> Root]

\* a call begins: remember the one before it and the state it starts from
BeginCall(o, p) ==
    /\ pc = "idle"
    /\ op' = o
    /\ path0' = p
    /\ f' = p
    /\ link_target' = <<>>
    /\ hops' = 0
    /\ saved_wd' = NoNode
    /\ exc' = "none"
    /\ spawned' = <<>>
    /\ fs0' = fs
    /\ cwd0' = cwd
    /\ prev' = [op |-> op, path |-> path0, result |-> result, spawned |-> spawned,
                fs0 |-> fs0, cwd0 |-> cwd0]
    /\ UNCHANGED <<fs, cwd, toolVars, histVars, extVars>>

\* get without its precondition assertion
get_begin_noassert(p) ==
    /\ BeginCall("get", p)
    /\ pc' = "resolve" /\ result' = "none"

\* get, line 104: assert os.path.islink(f)
get_begin(p) ==
    /\ BeginCall("get", p)
    /\ IF islink(fs, cwd, p)
       THEN pc' = "resolve" /\ result' = "none"
       ELSE pc' = "idle" /\ result' = "AssertionError"

\* drop, line 113: assert os.path.islink(f)
drop_begin(p) ==
    /\ BeginCall("drop", p)
    /\ IF islink(fs, cwd, p)
       THEN pc' = "resolve" /\ result' = "none"
       ELSE pc' = "idle" /\ result' = "AssertionError"

\* one iteration of the while loop of _get_link_into_annex
_get_link_into_annex ==
    /\ pc = "resolve"
    /\ IF ~islink(fs, cwd, f)
       THEN pc' = "resolved" /\ UNCHANGED <<f, link_target, hops>>
       ELSE LET t == readlink(fs, cwd, f) IN
            /\ link_target' = t
            /\ IF HasMarker(t)
               THEN pc' = "resolved" /\ UNCHANGED <<f, hops>>
               ELSE /\ hops < MaxHops
                    /\ hops' = hops + 1
                    /\ f' = IF isabs(t) THEN t ELSE join(dirname(f), t)
                    /\ pc' = "resolve"
    /\ UNCHANGED <<fs, cwd, op, path0, saved_wd, exc, result, spawned, fs0, cwd0,
                   prev, toolVars, histVars, extVars>>

\* the test that guards the with block, and the entry into it
EnterWith(needed) ==
    /\ pc = "resolved"
    /\ IF needed
       THEN LET d == pushd_popd_enter(fs, cwd, dirname(abspath(cwd, f))) IN
            IF d = NoNode
            THEN pc' = "idle" /\ result' = "OSError" /\ UNCHANGED <<cwd, saved_wd>>
            ELSE pc' = "exec" /\ saved_wd' = cwd /\ cwd' = d /\ UNCHANGED result
       ELSE pc' = "post" /\ UNCHANGED <<cwd, saved_wd, result>>
    /\ UNCHANGED <<fs, op, path0, f, link_target, hops, exc, spawned, fs0, cwd0,
                   prev, toolVars, histVars, extVars>>

\* get that fetches whether or not the object is there
get_pushd_always == op = "get" /\ EnterWith(TRUE)

\* get, lines 106-107: if not os.path.isfile(f): with pushd_popd(...)
get_pushd == op = "get" /\ EnterWith(~isfile(fs, cwd, f))

\* drop that asks for the removal whether or not the object is there
drop_pushd_always == op = "drop" /\ EnterWith(TRUE)

\* drop, lines 115-116: if os.path.isfile(f): with pushd_popd(...)
drop_pushd == op = "drop" /\ EnterWith(isfile(fs, cwd, f))

\* a with block that names the file by the path the caller gave
RunInWith_caller(sub) ==
    /\ pc = "exec"
    /\ execute(sub, basename(path0), spawned)
    /\ pc' = "popd"
    /\ UNCHANGED <<cwd, op, path0, f, link_target, hops, saved_wd, result, fs0,
                   cwd0, prev, extVars>>

\* the body of the with block: self.execute([sub, os.path.basename(f)])
RunInWith(sub) ==
    /\ pc = "exec"
    /\ execute(sub, basename(f), spawned)
    /\ pc' = "popd"
    /\ UNCHANGED <<cwd, op, path0, f, link_target, hops, saved_wd, result, fs0,
                   cwd0, prev, extVars>>

\* get, line 108
get_execute == op = "get" /\ RunInWith("get")

\* drop that removes the path itself instead of asking the backing tool
drop_execute_unlink ==
    /\ op = "drop"
    /\ pc = "exec"
    /\ fs' = [m \in (DOMAIN fs) \ {lstat(fs, cwd, basename(f))} |-> fs[m]]
    /\ exc' = "none"
    /\ pc' = "popd"
    /\ UNCHANGED <<cwd, op, path0, f, link_target, hops, saved_wd, result, spawned,
                   fs0, cwd0, prev, toolVars, histVars, extVars>>

\* drop, line 117
drop_execute == op = "drop" /\ RunInWith("drop")

\* the with block is left: the working directory is restored and an
\* exception raised inside the block goes on to the caller
popd ==
    /\ pc = "popd"
    /\ cwd' = pushd_popd_exit(saved_wd, cwd, exc)
    /\ IF exc = "none"
       THEN pc' = "post" /\ UNCHANGED result
       ELSE pc' = "idle" /\ result' = exc
    /\ UNCHANGED <<fs, op, path0, f, link_target, hops, saved_wd, exc, spawned,
                   fs0, cwd0, prev, toolVars, histVars, extVars>>

Finish(ok) ==
    /\ pc = "post"
    /\ pc' = "idle"
    /\ result' = IF ok THEN "ok" ELSE "AssertionError"
    /\ UNCHANGED <<fs, cwd, op, path0, f, link_target, hops, saved_wd, exc,
                   spawned, fs0, cwd0, prev, toolVars, histVars, extVars>>

\* get that trusts the exit status of the fetch
get_post_noassert == op = "get" /\ Finish(TRUE)

\* get, line 109: assert os.path.isfile(f)
get_post == op = "get" /\ Finish(isfile(fs, cwd, f))

\* drop that only checks the link is still there
drop_post_linkonly == op = "drop" /\ Finish(islink(fs, cwd, f))

\* drop, lines 118-119: assert os.path.islink(f); assert not os.path.isfile(f)
drop_post == op = "drop" /\ Finish(islink(fs, cwd, f) /\ ~isfile(fs, cwd, f))

----------------------------------------------------------------------------
(* The specification of get and drop *)

HistInit ==
    /\ returned = {}
    /\ cacheWrites = 0
    /\ verifiedAll = {}
    /\ workAfterCache = FALSE
    /\ lastTrace = <<>>

\* no _make_cmd, _run, initremote or rmdup call has been made
CmdIdle ==
    /\ args = <<>>
    /\ cmd = <<>>
    /\ cres = "none"
    /\ remote = [name |-> "", type |-> "", kw |-> <<>>]

RmdupIdle ==
    /\ files = <<>>
    /\ files0 = <<>>
    /\ rpc = "idle"
    /\ ri = 0
    /\ rresult = "none"
    /\ outPair = <<>>
    /\ outUnpaired = <<>>
    /\ tmp1OutPair = <<>>
    /\ tmp2OutPair = <<>>
    /\ cmdline = <<>>
    /\ ntemp = 0
    /\ writable = {}
    /\ outDev = "local"

AnnexIdle ==
    /\ pc = "idle"
    /\ op = "none"
    /\ path0 = <<>>
    /\ f = <<>>
    /\ link_target = <<>>
    /\ hops = 0
    /\ saved_wd = NoNode
    /\ exc = "none"
    /\ result = "none"
    /\ spawned = <<>>
    /\ prev = NoCall

Init ==
    /\ \E present \in SUBSET Objects : fs = WithObjects(present)
    /\ cwd \in CwdSet
    /\ fs0 = fs
    /\ cwd0 = cwd
    /\ AnnexIdle
    /\ methods = GitAnnexMethods
    /\ stubs = {}
    /\ env \in [1..Len(GitAnnexMethods) -> EnvChoices]
    /\ attempted = {}
    /\ cachedPath = NoPath
    /\ HistInit
    /\ CmdIdle
    /\ RmdupIdle

Next ==
    \/ \E p \in CallerPaths(cwd) : get_begin(p)
    \/ \E p \in CallerPaths(cwd) : drop_begin(p)
    \/ _get_link_into_annex
    \/ get_pushd
    \/ get_execute
    \/ get_post
    \/ drop_pushd
    \/ drop_execute
    \/ drop_post
    \/ popd

Spec == Init /\ [][Next]_vars

TypeOK ==
    /\ pc \in {"idle", "resolve", "resolved", "exec", "popd", "post"}
    /\ op \in {"none", "get", "drop"}
    /\ result \in {"none", "ok", "AssertionError", "OSError", "ToolUnavailable",
                   "CalledProcessError"}
    /\ cwd \in DOMAIN fs
    /\ hops \in 0..MaxHops

----------------------------------------------------------------------------
(* The specification of the tool handle on its own *)

\* a caller asks the handle for the executable's path
install_and_get_path_call ==
    /\ pc = "idle"
    /\ Resolved(install_and_get_path(methods, cachedPath, env, attempted))
    /\ UNCHANGED <<annexVars, extVars>>

\* the pass-through operations: init_repo, add, move and initremote hand
\* their arguments to execute
PassThrough == {"init", "add", "move", "initremote"}

execute_call ==
    /\ pc = "idle"
    /\ \E sub \in PassThrough : execute(sub, <<"data", "r">>, <<>>)
    /\ UNCHANGED <<cwd, pc, op, path0, f, link_target, hops, saved_wd, result,
                   fs0, cwd0, prev, extVars>>

\* outside the process, a method that is not always satisfiable becomes
\* available or stops being so
EnvChange ==
    /\ \E i \in (1..Len(methods)) \ stubs : \E e \in EnvStates :
           /\ e # env[i]
           /\ env' = [env EXCEPT ![i] = e]
    /\ UNCHANGED <<annexVars, attempted, cachedPath, methods, stubs, histVars, extVars>>

InitTool ==
    /\ fs = WithObjects({})
    /\ cwd = W
    /\ fs0 = fs
    /\ cwd0 = cwd
    /\ AnnexIdle
    /\ methods \in {GitAnnexMethods, MvicunaMethods}
    /\ stubs \in SUBSET (1..Len(methods))
    /\ env \in [1..Len(methods) -> EnvStates]
    /\ \A i \in stubs : env[i] = Satisfied
    /\ attempted = {}
    /\ cachedPath = NoPath
    /\ HistInit
    /\ CmdIdle
    /\ RmdupIdle

NextTool ==
    \/ install_and_get_path_call
    \/ execute_call
    \/ EnvChange

SpecTool == InitTool /\ [][NextTool]_vars

----------------------------------------------------------------------------
(* MvicunaTool.rmdup *)

\* file names are <<directory, base>> or, for a temporary, <<"tmp", serial, suffix>>
In1  == <<"in", "r1.fastq">>
In2  == <<"in", "r2.fastq">>
Out1 == <<"out", "o1.fastq">>
Out2 == <<"out", "o2.fastq">>
OutU == <<"out", "unpaired.fastq">>
inPair == <<In1, In2>>
\* Python's None where a name or a string is expected
None == <<"None">>

\* what a file holds: a tagged value, <<"absent">> if there is no such file
Absent == <<"absent">>
Empty  == <<"empty">>
Old    == <<"old">>
Reads(i) == <<"reads", i>>

Content(fl, n) == IF n \in DOMAIN fl THEN fl[n] ELSE Absent

\* the duplicate-free reads the tool computes from one input file
Dedup(c) == <<"dedup", c>>

Dev(n, odev) == IF n[1] = "out" THEN odev ELSE "local"

Serial == <<"a", "b", "c", "d", "e", "f", "g", "h">>

\* util.file.mkstempfname: the n-th fresh name, created as an empty file
mkstempfname(n, suffix) == <<"tmp", Serial[n + 1], suffix>>

\* one argument of an argument vector is the list of names that were joined
\* with ',' to make it; a flag or a program path is a list of one
Word(w) == << <<w>> >>

\* the argument that follows the flag
ArgOf(argv, flag) ==
    LET k == CHOOSE j \in 1..Len(argv) : argv[j] = Word(flag) IN argv[k + 1]

\* the wrapped tool, as the docstring of rmdup describes it: the output is
\* written to the -drm_op names, then renamed to the -opfq names; a rename
\* cannot cross file systems.  The outcomes: success, a failure before
\* anything is written, and a failure of the rename.
MvicunaOutcomes(argv, fl, odev) ==
    LET ins    == ArgOf(argv, "-ipfq")
        opfq   == ArgOf(argv, "-opfq")
        osfq   == ArgOf(argv, "-osfq")[1]
        drm    == ArgOf(argv, "-drm_op")
        outs   == [i \in 1..2 |-> Dedup(Content(fl, ins[i]))]
        written == (drm[1] :> outs[1]) @@ (drm[2] :> outs[2])
                       @@ (osfq :> <<"unpaired", Content(fl, ins[1])>>) @@ fl
        kept   == (DOMAIN written) \ {drm[1], drm[2]}
        renamed == (opfq[1] :> outs[1]) @@ (opfq[2] :> outs[2])
                       @@ [n \in kept |-> written[n]]
        canRename == \A i \in 1..2 : Dev(drm[i], odev) = Dev(opfq[i], odev)
    IN  IF canRename
        THEN { [files |-> renamed, exit |-> 0], [files |-> fl, exit |-> 1] }
        ELSE { [files |-> written, exit |-> 1], [files |-> fl, exit |-> 1] }

\* lines 48-53: the unpaired output if none was given, and the two pairs of
\* temporary names
rmdup_begin(o, u) ==
    /\ rpc = "idle"
    /\ ntemp + 5 <= MaxTemps
    /\ LET k  == IF u = None THEN 1 ELSE 0
           ou == IF u = None THEN mkstempfname(ntemp, ".unpaired.fastq") ELSE u
           t1 == << mkstempfname(ntemp + k,     ".tmp1out.1.fastq"),
                    mkstempfname(ntemp + k + 1, ".tmp1out.2.fastq") >>
           t2 == << mkstempfname(ntemp + k + 2, ".tmp2out.1.fastq"),
                    mkstempfname(ntemp + k + 3, ".tmp2out.2.fastq") >>
           made == {t1[1], t1[2], t2[1], t2[2]} \cup (IF u = None THEN {ou} ELSE {})
       IN  /\ outPair' = o
           /\ outUnpaired' = ou
           /\ tmp1OutPair' = t1
           /\ tmp2OutPair' = t2
           /\ ntemp' = ntemp + k + 4
           /\ files' = [n \in made |-> Empty] @@ files
    /\ files0' = files
    /\ rpc' = "resolve"
    /\ ri' = 0
    /\ rresult' = "none"
    /\ cmdline' = <<>>
    /\ spawned' = <<>>
    /\ UNCHANGED <<fs, cwd, pc, op, path0, f, link_target, hops, saved_wd, exc,
                   result, fs0, cwd0, prev, toolVars, histVars, cmdVars,
                   writable, outDev>>

\* the two temporary pairs under each other's flag
RmdupCmdline_swapped(path, opfq, drm) ==
    << Word(path), Word("-ipfq"), inPair, Word("-opfq"), drm,
       Word("-osfq"), <<outUnpaired>>, Word("-drm_op"), opfq,
       Word("-tasks"), Word("DupRm") >>

\* the argument vector of lines 54-55, given the path of the tool
RmdupCmdline(path, opfq, drm) ==
    << Word(path), Word("-ipfq"), inPair, Word("-opfq"), opfq,
       Word("-osfq"), <<outUnpaired>>, Word("-drm_op"), drm,
       Word("-tasks"), Word("DupRm") >>

\* lines 54-56: the command line starts with the resolved path of the tool;
\* if the tool cannot be had the call ends here
rmdup_cmdline ==
    /\ rpc = "resolve"
    /\ LET r == install_and_get_path(methods, cachedPath, env, attempted) IN
       /\ Resolved(r)
       /\ IF r.path = NoPath
          THEN /\ rresult' = "ToolUnavailable"
               /\ rpc' = "idle"
               /\ UNCHANGED cmdline
          ELSE /\ cmdline' = RmdupCmdline(r.path, tmp2OutPair, tmp1OutPair)
               /\ rpc' = "run"
               /\ UNCHANGED rresult
    /\ UNCHANGED <<annexVars, cmdVars, files, files0, ri, outPair, outUnpaired,
                   tmp1OutPair, tmp2OutPair, ntemp, writable, outDev>>

\* line 57: subprocess.check_call(cmdline)
rmdup_check_call ==
    /\ rpc = "run"
    /\ \E o \in MvicunaOutcomes(cmdline, files, outDev) :
           /\ files' = o.files
           /\ IF o.exit = 0
              THEN rpc' = "copy" /\ ri' = 1 /\ UNCHANGED rresult
              ELSE rpc' = "idle" /\ rresult' = "CalledProcessError" /\ UNCHANGED ri
           /\ spawned' = Append(spawned,
                  [prog |-> cmdline[1][1][1], sub |-> "DupRm", arg |-> cmdline,
                   cwd |-> cwd, exit |-> o.exit])
    /\ UNCHANGED <<fs, cwd, pc, op, path0, f, link_target, hops, saved_wd, exc,
                   result, fs0, cwd0, prev, toolVars, histVars, cmdVars, files0,
                   outPair, outUnpaired, tmp1OutPair, tmp2OutPair, cmdline,
                   ntemp, writable, outDev>>

\* shutil.copyfile(src, dst): the new contents, or the error it raises
copyfile(fl, src, dst, canWrite) ==
    IF src = dst THEN [files |-> fl, err |-> "SameFileError"]
    ELSE IF Content(fl, src) = Absent \/ dst \notin canWrite
         THEN [files |-> fl, err |-> "IOError"]
         ELSE [files |-> (dst :> fl[src]) @@ fl, err |-> "none"]

\* lines 58-59, one iteration of the loop over zip(tmp2OutPair, outPair)
rmdup_copy ==
    /\ rpc = "copy"
    /\ LET c == copyfile(files, tmp2OutPair[ri], outPair[ri], writable) IN
       /\ files' = c.files
       /\ IF c.err # "none"
          THEN rpc' = "idle" /\ rresult' = c.err /\ UNCHANGED ri
          ELSE IF ri < 2
               THEN ri' = ri + 1 /\ UNCHANGED <<rpc, rresult>>
               ELSE rpc' = "idle" /\ rresult' = "ok" /\ UNCHANGED ri
    /\ UNCHANGED <<annexVars, toolVars, histVars, cmdVars, files0, outPair,
                   outUnpaired, tmp1OutPair, tmp2OutPair, cmdline, ntemp,
                   writable, outDev>>

\* the environments rmdup is run in: as for get and drop, and a tool that is
\* there but fails its probe
EnvChoicesRmdup ==
    EnvChoices \cup {[present |-> TRUE, installable |-> FALSE, verifies |-> FALSE]}

\* the output pairs and unpaired outputs a caller asks for
OutPairs == { <<Out1, Out2>>, <<Out2, Out1>> }
OutUnpaireds == { None, OutU }

InitRmdup ==
    /\ fs = WithObjects({})
    /\ cwd = W
    /\ fs0 = fs
    /\ cwd0 = cwd
    /\ AnnexIdle
    /\ methods = MvicunaMethods
    /\ stubs = {}
    /\ env \in [1..Len(MvicunaMethods) -> EnvChoicesRmdup]
    /\ attempted = {}
    /\ cachedPath = NoPath
    /\ HistInit
    /\ CmdIdle
    /\ \E old \in SUBSET {Out1, Out2} :
           files = [n \in old |-> Old] @@ (In1 :> Reads(1)) @@ (In2 :> Reads(2))
    /\ files0 = files
    /\ rpc = "idle"
    /\ ri = 0
    /\ rresult = "none"
    /\ outPair = <<>>
    /\ outUnpaired = <<>>
    /\ tmp1OutPair = <<>>
    /\ tmp2OutPair = <<>>
    /\ cmdline = <<>>
    /\ ntemp = 0
    /\ writable \in SUBSET {Out1, Out2, OutU}
    /\ OutU \in writable
    /\ outDev \in {"local", "nfs"}

NextRmdup ==
    \/ \E o \in OutPairs : \E u \in OutUnpaireds : rmdup_begin(o, u)
    \/ rmdup_cmdline
    \/ rmdup_check_call
    \/ rmdup_copy
    \/ (rpc = "idle" /\ execute_call)

SpecRmdup == InitRmdup /\ [][NextRmdup]_vars

----------------------------------------------------------------------------
(* _noquote, _quote, _make_cmd and _run: command strings *)

\* a string is the sequence of its characters
Marker == <<"_", "n", "o", "q", "u", "o", "t", "e", ":">>
Space  == <<" ">>

startswith(s, p) == Len(s) >= Len(p) /\ SubSeq(s, 1, Len(p)) = p

\* line 28
_noquote(s) == Marker \o s

\* the characters pipes.quote leaves alone
SafeChars ==
    { "a", "b", "c", "d", "e", "f", "g", "h", "i", "j", "k", "l", "m", "n", "o",
      "p", "q", "r", "s", "t", "u", "v", "w", "x", "y", "z", "0", "1", "2", "3",
      "4", "5", "6", "7", "8", "9", "@", "%", "_", "+", "=", ":", ",", ".", "/",
      "-" }

\* file.replace("'", "'\"'\"'")
RECURSIVE QuoteEscape(_)
QuoteEscape(s) ==
    IF s = <<>> THEN <<>>
    ELSE (IF Head(s) = "'" THEN <<"'", "\"", "'", "\"", "'">> ELSE <<Head(s)>>)
             \o QuoteEscape(Tail(s))

\* pipes.quote / shlex.quote
pipes_quote(s) ==
    IF \A i \in 1..Len(s) : s[i] \in SafeChars
    THEN (IF s = <<>> THEN <<"'", "'">> ELSE s)
    ELSE <<"'">> \o QuoteEscape(s) \o <<"'">>

\* lines 30-33
_quote(s) ==
    IF startswith(s, Marker) THEN SubSeq(s, Len(Marker) + 1, Len(s))
    ELSE pipes_quote(s)

\* sep.join(ss)
RECURSIVE Join(_, _)
Join(ss, sep) ==
    IF ss = <<>> THEN <<>>
    ELSE IF Len(ss) = 1 THEN ss[1]
    ELSE ss[1] \o sep \o Join(Tail(ss), sep)

\* the arguments a caller writes: None, a string, or _noquote(a string)
NoneArg == [kind |-> "None", text |-> <<>>]
StrArg(t) == [kind |-> "str", text |-> t]
NoquoteArg(t) == [kind |-> "noquote", text |-> t]

\* the value _make_cmd receives for an argument the caller wrote
ValueOf(a) ==
    IF a.kind = "None" THEN None
    ELSE IF a.kind = "noquote" THEN _noquote(a.text)
    ELSE a.text

Values(as) == [i \in 1..Len(as) |-> ValueOf(as[i])]

\* arg not in (None, '')
Kept(v) == v # None /\ v # <<>>

\* lines 35-37, for the values vs of *args
_make_cmd(c, vs) ==
    LET kept == SelectSeq(vs, Kept)
    IN  Join(<<c>> \o [i \in 1..Len(kept) |-> _quote(kept[i])], Space)

\* what /bin/sh makes of a command string: its words, or SyntaxError for an
\* unterminated quote.  mode is "blank" between words, "word" in one, "sq" and
\* "dq" inside single and double quotes
SyntaxError == << <<"syntax error">> >>

RECURSIVE ShellScan(_, _, _, _, _)
ShellScan(s, i, mode, cur, words) ==
    IF i > Len(s)
    THEN IF mode \in {"sq", "dq"} THEN SyntaxError
         ELSE IF mode = "word" THEN Append(words, cur)
         ELSE words
    ELSE LET c == s[i] IN
         IF mode = "sq"
         THEN IF c = "'" THEN ShellScan(s, i + 1, "word", cur, words)
              ELSE ShellScan(s, i + 1, "sq", Append(cur, c), words)
         ELSE IF mode = "dq"
         THEN IF c = "\"" THEN ShellScan(s, i + 1, "word", cur, words)
              ELSE ShellScan(s, i + 1, "dq", Append(cur, c), words)
         ELSE IF c = " "
         THEN IF mode = "word" THEN ShellScan(s, i + 1, "blank", <<>>, Append(words, cur))
              ELSE ShellScan(s, i + 1, "blank", <<>>, words)
         ELSE IF c = "'" THEN ShellScan(s, i + 1, "sq", cur, words)
         ELSE IF c = "\"" THEN ShellScan(s, i + 1, "dq", cur, words)
         ELSE ShellScan(s, i + 1, "word", Append(cur, c), words)

ShellWords(s) == ShellScan(s, 1, "blank", <<>>, <<>>)

\* the exit statuses a shell given the command string can end with
ShellExits(c) == IF ShellWords(c) = SyntaxError THEN {2} ELSE {0, 1}

Shell == "/bin/sh"

\* a _run that runs the command again when it fails
_run_retry(c, vs) ==
    LET built == _make_cmd(c, vs)
        child(e) == [prog |-> Shell, sub |-> "-c", arg |-> built, cwd |-> cwd,
                     exit |-> e]
    IN  /\ cmd' = built
        /\ \E e1 \in ShellExits(built) :
               IF e1 = 0
               THEN spawned' = <<child(e1)>> /\ cres' = "ok"
               ELSE \E e2 \in ShellExits(built) :
                        /\ spawned' = <<child(e1), child(e2)>>
                        /\ cres' = IF e2 = 0 THEN "ok" ELSE "CalledProcessError"

\* lines 39-44: build the command, hand it to one shell, fail if the shell
\* exits non-zero
_run(c, vs) ==
    LET built == _make_cmd(c, vs)
        child(e) == [prog |-> Shell, sub |-> "-c", arg |-> built, cwd |-> cwd,
                     exit |-> e]
    IN  /\ cmd' = built
        /\ \E e \in ShellExits(built) :
               /\ spawned' = <<child(e)>>
               /\ cres' = IF e = 0 THEN "ok" ELSE "CalledProcessError"

\* a caller builds a command from the arguments
_make_cmd_call ==
    /\ cmd = <<>>
    /\ cmd' = _make_cmd(args.cmd, Values(args.args))
    /\ UNCHANGED <<annexVars, toolVars, histVars, args, cres, remote, rmdupVars>>

\* a caller runs a command
_run_call ==
    /\ cres = "none"
    /\ pc = "idle"
    /\ _run(args.cmd, Values(args.args))
    /\ UNCHANGED <<fs, cwd, pc, op, path0, f, link_target, hops, saved_wd, exc,
                   result, fs0, cwd0, prev, toolVars, histVars, args, remote,
                   rmdupVars>>

MaxArgs == 2
MaxStrLen == 2

Git == <<"g", "i", "t">>
Alphabet == {"a", " ", "'"}
Bodies == UNION { [1..n -> Alphabet] : n \in 0..MaxStrLen }
Texts == Bodies \cup { _noquote(b) : b \in Bodies }
ArgValues ==
    {NoneArg} \cup {StrArg(t) : t \in Texts} \cup {NoquoteArg(b) : b \in Bodies}

\* _make_cmd(prog, "a b", "", None, "c")
ExampleArgs == << StrArg(<<"a", " ", "b">>), StrArg(<<>>), NoneArg, StrArg(<<"c">>) >>
ArgLists == UNION { [1..n -> ArgValues] : n \in 0..MaxArgs } \cup {ExampleArgs}

InitCmd ==
    /\ fs = WithObjects({})
    /\ cwd = W
    /\ fs0 = fs
    /\ cwd0 = cwd
    /\ AnnexIdle
    /\ methods = GitAnnexMethods
    /\ stubs = {}
    /\ env = [i \in 1..Len(GitAnnexMethods) |-> Satisfied]
    /\ attempted = {}
    /\ cachedPath = NoPath
    /\ HistInit
    /\ args \in [cmd : {Git}, args : ArgLists]
    /\ cmd = <<>>
    /\ cres = "none"
    /\ remote = [name |-> "", type |-> "", kw |-> <<>>]
    /\ RmdupIdle

NextCmd ==
    \/ _make_cmd_call
    \/ _run_call

SpecCmd == InitCmd /\ [][NextCmd]_vars

----------------------------------------------------------------------------
(* GitAnnexTool.initremote, and the calls that run a child *)

\* an attribute is <<key, value>>; an argument 'key=value' is <<key, "=", value>>
HasKey(kw, k) == \E i \in 1..Len(kw) : kw[i][1] = k

\* a remote_attrs that sets encryption=none whatever the caller gave
remote_attrs_forced(kw) ==
    Append(kw, <<"encryption", "none">>)

\* lines 77-78: the caller's attributes, and encryption=none if there is no
\* encryption among them
remote_attrs(kw) ==
    IF HasKey(kw, "encryption") THEN kw ELSE Append(kw, <<"encryption", "none">>)

\* the orders remote_attrs.items() can yield the attributes in
Orders(n) == { p \in [1..n -> 1..n] : \A i, j \in 1..n : p[i] = p[j] => i = j }

\* line 79: the argument lists initremote can hand to execute
initremote_args(name, remote_type, kw) ==
    LET attrs == remote_attrs(kw)
    IN  { << <<"initremote">>, <<name>>, <<"type", "=", remote_type>> >>
              \o [i \in 1..Len(attrs) |-> <<attrs[p[i]][1], "=", attrs[p[i]][2]>>]
          : p \in Orders(Len(attrs)) }

\* initremote (lines 76-79) through execute (lines 61-64): resolve the tool,
\* then run it once with the arguments
initremote ==
    /\ pc = "idle"
    /\ LET r == install_and_get_path(methods, cachedPath, env, attempted) IN
       /\ Resolved(r)
       /\ IF r.path = NoPath
          THEN exc' = "ToolUnavailable" /\ spawned' = <<>>
          ELSE \E argv \in initremote_args(remote.name, remote.type, remote.kw) :
               \E e \in {0, 1} :
                   /\ spawned' = << [prog |-> r.path, sub |-> "initremote",
                                     arg |-> argv, cwd |-> cwd, exit |-> e] >>
                   /\ exc' = IF e = 0 THEN "none" ELSE "CalledProcessError"
    /\ UNCHANGED <<fs, cwd, pc, op, path0, f, link_target, hops, saved_wd,
                   result, fs0, cwd0, prev, extVars>>

MaxAttrs == 2

Attrs == { <<"encryption", "none">>, <<"encryption", "shared">>, <<"bucket", "b">> }
KwLists ==
    { kw \in UNION { [1..n -> Attrs] : n \in 0..MaxAttrs } :
        \A i, j \in 1..Len(kw) : kw[i][1] = kw[j][1] => i = j }
Remotes == [name : {"origin"}, type : {"S3", "directory"}, kw : KwLists]

\* init_repo (line 67) and commit (line 74) call _run
RunCalls ==
    { [cmd |-> Git, args |-> << StrArg(<<"i", "n", "i", "t">>) >>],
      [cmd |-> Git, args |-> << StrArg(<<"c", "o", "m", "m", "i", "t">>),
                                StrArg(<<"-", "m">>),
                                StrArg(<<"\"", "m", " ", "s", "g", "\"">>) >>] }

InitExec ==
    /\ fs = WithObjects({})
    /\ cwd = W
    /\ fs0 = fs
    /\ cwd0 = cwd
    /\ AnnexIdle
    /\ methods = GitAnnexMethods
    /\ stubs = {}
    /\ env \in [1..Len(GitAnnexMethods) -> EnvChoicesRmdup]
    /\ attempted = {}
    /\ cachedPath = NoPath
    /\ HistInit
    /\ args \in RunCalls
    /\ cmd = <<>>
    /\ cres = "none"
    /\ remote \in Remotes
    /\ RmdupIdle

NextExec ==
    \/ _run_call
    \/ initremote
    \/ execute_call

SpecExec == InitExec /\ [][NextExec]_vars

----------------------------------------------------------------------------
(* Properties of get and drop *)

\* the node the kernel reaches from the caller's path, following every link
Terminal(fsys, wd, p) == stat(fsys, wd, p)

\* the caller's path is a symlink whose chain reaches a link into the store
IntoStore(fsys, wd, p) == islink(fsys, wd, p) /\ Terminal(fsys, wd, p) \in Objects

Finished(o) == pc = "idle" /\ op = o

\* C1: a get that returns successfully for a symlink whose chain reaches the
\* store, the object not yet a regular file, leaves the object a regular file
\* and the caller's path a symlink with the target it had.
C1_GetMaterializes ==
    ( /\ Finished("get") /\ result = "ok"
      /\ IntoStore(fs0, cwd0, path0)
      /\ Kind(fs0, Terminal(fs0, cwd0, path0)) # "file" )
    => /\ Kind(fs, Terminal(fs0, cwd0, path0)) = "file"
       /\ isfile(fs, cwd0, path0)
       /\ islink(fs, cwd0, path0)
       /\ readlink(fs, cwd0, path0) = readlink(fs0, cwd0, path0)

C1_Witness ==
    /\ Finished("get") /\ result = "ok"
    /\ path0 = <<"data", "s">>
    /\ Kind(fs0, Obj1) = "absent" /\ Kind(fs, Obj1) = "file"
    /\ Len(spawned) = 1

\* C2: a drop that returns successfully leaves the caller's path a symlink and
\* the terminal object not a regular file, whatever the length of the chain.
C2_DropDematerializes ==
    (Finished("drop") /\ result = "ok")
    => /\ islink(fs, cwd0, path0)
       /\ readlink(fs, cwd0, path0) = readlink(fs0, cwd0, path0)
       /\ ~isfile(fs, cwd0, path0)
       /\ Kind(fs, Terminal(fs0, cwd0, path0)) # "file"

C2_Witness ==
    /\ Finished("drop") /\ result = "ok"
    /\ path0 = <<"u">> /\ hops = 2
    /\ Kind(fs0, Obj1) = "file" /\ Kind(fs, Obj1) = "absent"
    /\ Len(spawned) = 1

\* C3: in every state, during and after any sequence of get and drop calls,
\* every symlink (and every other entry that is not a store object) is what
\* it was, and the only entry a call has changed is the terminal object of
\* the path it was given.
C3_LinksUntouched ==
    /\ \A n \in DOMAIN Tree : n \in DOMAIN fs /\ fs[n] = Tree[n]
    /\ \A n \in (DOMAIN fs) \cup (DOMAIN fs0) :
           Kind(fs, n) # Kind(fs0, n) => n = Terminal(fs0, cwd0, path0)

C3_Witness ==
    /\ Finished("drop") /\ result = "CalledProcessError"
    /\ prev.op = "get" /\ prev.result = "ok" /\ Len(prev.spawned) = 1
    /\ path0 = <<"data", "t">>
    /\ fs # prev.fs0

\* C4: a get that finds the terminal object a regular file runs no child
\* process and changes nothing; and a successful get followed by a successful
\* get of the same path fetches once in total (the first call, and only if the
\* object was not there), the second call fetching nothing.
C4_GetIdempotent ==
    /\ ( Finished("get") /\ islink(fs0, cwd0, path0) /\ isfile(fs0, cwd0, path0) )
       => (result = "ok" /\ spawned = <<>> /\ fs = fs0 /\ cwd = cwd0)
    /\ ( /\ Finished("get") /\ result = "ok"
         /\ prev.op = "get" /\ prev.result = "ok"
         /\ prev.path = path0 /\ prev.cwd0 = cwd0 )
       => /\ spawned = <<>>
          /\ Len(prev.spawned) + Len(spawned) =
                 (IF isfile(prev.fs0, prev.cwd0, path0) THEN 0 ELSE 1)

C4_Witness ==
    /\ Finished("get") /\ result = "ok" /\ spawned = <<>>
    /\ prev.op = "get" /\ prev.result = "ok" /\ prev.path = path0
    /\ path0 = <<"data", "t">>
    /\ Len(prev.spawned) = 1 /\ prev.spawned[1].sub = "get"
    /\ Kind(prev.fs0, Obj1) = "absent"

\* C5: from a path into the store whose object is not materialized, a
\* successful get followed at once by a successful drop of the same path
\* restores the local state: same file system (the path a symlink with the
\* same target, the object not a regular file) and same working directory.
C5_GetDropRoundTrip ==
    ( /\ Finished("drop") /\ result = "ok"
      /\ prev.op = "get" /\ prev.result = "ok" /\ prev.path = path0
      /\ IntoStore(prev.fs0, prev.cwd0, path0)
      /\ ~isfile(prev.fs0, prev.cwd0, path0) )
    => /\ fs = prev.fs0
       /\ cwd = prev.cwd0
       /\ islink(fs, cwd, path0)
       /\ readlink(fs, cwd, path0) = readlink(prev.fs0, prev.cwd0, path0)
       /\ ~isfile(fs, cwd, path0)

C5_Witness ==
    /\ Finished("drop") /\ result = "ok" /\ Len(spawned) = 1
    /\ prev.op = "get" /\ prev.result = "ok" /\ prev.path = path0
    /\ Len(prev.spawned) = 1
    /\ path0 = <<"..", "u">>
    /\ Kind(prev.fs0, Obj1) = "absent" /\ Kind(fs0, Obj1) = "file"
    /\ Kind(fs, Obj1) = "absent"

\* C6: chain resolution follows a bounded number of hops: a resolution that
\* stops on every input follows no link twice, so never more hops than there
\* are symlinks.
C6_HopsBounded == hops <= NumLinks

\* C7: when the path given to get or drop is not a symlink, the call fails at
\* once: no chain resolution, no child process, file system and working
\* directory as they were.
C7_NotASymlink ==
    (op # "none" /\ ~islink(fs0, cwd0, path0))
    => /\ pc = "idle"
       /\ result = "AssertionError"
       /\ f = path0 /\ link_target = <<>> /\ hops = 0
       /\ spawned = <<>>
       /\ fs = fs0
       /\ cwd = cwd0

C7_Witness ==
    /\ Finished("drop") /\ result = "AssertionError"
    /\ path0 = <<"data", "r">>
    /\ isfile(fs0, cwd0, path0) /\ ~islink(fs0, cwd0, path0)

\* C8: when the chain from the path ends at something that is not a symlink
\* and no link target had the store marker, get and drop fail and run no child
\* process.
C8_PlainChainFails ==
    ( /\ op # "none" /\ pc # "resolve"
      /\ islink(fs0, cwd0, path0)
      /\ ~islink(fs0, cwd0, f) )
    => /\ spawned = <<>>
       /\ pc = "idle" => result # "ok"

\* C9: whenever get or drop has returned or raised, the working directory is
\* the one the call started in.
C9_CwdRestored == pc = "idle" => cwd = cwd0

C9_Witness ==
    /\ Finished("get") /\ result = "CalledProcessError"
    /\ Len(spawned) = 1 /\ spawned[1].cwd # cwd0
    /\ cwd = cwd0

----------------------------------------------------------------------------
(* Properties of the tool handle *)

\* C10: for a handle with an always-satisfiable install method, every call of
\* install_and_get_path returns, all calls return one and the same path, that
\* path passed the verify probe of its method, the cached path is written at
\* most once, and once it is cached no check, install action or probe runs.
C10_Memoized ==
    stubs # {}
    => /\ Cardinality(returned) <= 1
       /\ returned \subseteq verifiedAll
       /\ cachedPath # NoPath => returned = {cachedPath}
       /\ lastTrace # <<>> => cachedPath # NoPath
       /\ exc # "ToolUnavailable"
       /\ cacheWrites <= 1
       /\ ~workAfterCache

C10_Witness ==
    /\ methods = MvicunaMethods /\ stubs = {2}
    /\ returned = {MvicunaMethods[2].path}
    /\ cachedPath = MvicunaMethods[2].path
    /\ env[1].present /\ env[1].verifies
    /\ lastTrace = <<>>
    /\ Len(spawned) = 1 /\ spawned[1].prog = cachedPath
    /\ cacheWrites = 1

----------------------------------------------------------------------------
(* Properties of resolution failure and of rmdup *)

\* every install method fails: it is neither installed nor installable by an
\* install action that has not run yet, or it does not pass its probe
AllFail(ms, e, att) ==
    \A i \in 1..Len(ms) :
        ~( (e[i].present \/ (i \notin att /\ e[i].installable)) /\ e[i].verifies )

\* C11: while every install method fails verification, no step starts a child
\* process or caches or returns a path; execute can only end with
\* ToolUnavailable, and rmdup ends with ToolUnavailable at the resolution,
\* before it has a command line and without ever running one.
C11_UnavailableSpawnsNothing ==
    [][ (cachedPath = NoPath /\ AllFail(methods, env, attempted))
        => /\ cachedPath' = NoPath
           /\ returned' = {}
           /\ spawned' = <<>>
           /\ exc' \in {exc, "ToolUnavailable"}
           /\ rpc' # "run"
           /\ rpc = "resolve" =>
                  (rresult' = "ToolUnavailable" /\ rpc' = "idle" /\ cmdline' = <<>>)
      ]_vars

C11_Witness ==
    /\ exc = "ToolUnavailable"
    /\ rresult = "ToolUnavailable"
    /\ rpc = "idle" /\ ntemp > 0
    /\ spawned = <<>>
    /\ cachedPath = NoPath
    /\ env[1].present /\ ~env[1].verifies
    /\ Len(lastTrace) >= 3

C19_RmdupAllOrNothing ==
    (rpc = "idle" /\ rresult \notin {"none", "ok"})
    => \A i \in 1..2 : Content(files, outPair[i]) = Content(files0, outPair[i])

\* the texts of the arguments that are neither None nor ''
KeptArgs(as) == SelectSeq(as, LAMBDA a : Kept(ValueOf(a)))

\* C12: _make_cmd emits the program followed by the arguments in their order,
\* without those equal to None or '', and each argument it keeps is exactly one
\* shell token: the shell given the command sees the program and the kept
\* arguments, text for text.  Stated for the calls where no argument was
\* marked with _noquote, whose text is meant to reach the shell as it is.
C12_OneTokenEach ==
    (cmd # <<>> /\ \A i \in 1..Len(args.args) : args.args[i].kind # "noquote")
    => LET kept == KeptArgs(args.args)
       IN  ShellWords(cmd) = <<args.cmd>> \o [i \in 1..Len(kept) |-> kept[i].text]

\* the token _make_cmd is to emit for a kept argument
Emitted(a) == IF a.kind = "noquote" THEN a.text ELSE pipes_quote(a.text)

\* C20: an argument is emitted unquoted only if the caller marked it with
\* _noquote: _quote(_noquote(s)) = s for every s, and every other kept
\* argument, also one whose text starts with the marker, is emitted in its
\* shell-quoted form.
C20_OnlyMarkedUnquoted ==
    /\ \A s \in Texts : _quote(_noquote(s)) = s
    /\ cmd # <<>> =>
          LET kept == KeptArgs(args.args)
          IN  cmd = Join(<<args.cmd>> \o [i \in 1..Len(kept) |-> Emitted(kept[i])],
                         Space)

\* the call ends as the child's exit status says
ExitDecides(child, outcome, good) ==
    /\ child.exit = 0 => outcome = good
    /\ child.exit # 0 => outcome = "CalledProcessError"

\* C13 (as the claim states it): every call of _run and of execute spawns
\* exactly one child.
C13_AlwaysOneChild ==
    [][ (_run_call \/ execute_call \/ initremote) => Len(spawned') = 1 ]_vars

\* C13 (amended): a call of _run spawns exactly one child; a call of execute
\* spawns exactly one child when the tool's path is resolved and none when the
\* resolution fails with ToolUnavailable; no call runs its command a second
\* time, a non-zero exit status makes the call fail with CalledProcessError
\* and a zero exit status makes it return normally.
C13_OneChildNoRetry ==
    [][ /\ _run_call =>
              /\ Len(spawned') = 1
              /\ spawned'[1].arg = cmd'
              /\ ExitDecides(spawned'[1], cres', "ok")
        /\ (execute_call \/ initremote) =>
              /\ Len(spawned') <= 1
              /\ Len(spawned') = 0 <=> exc' = "ToolUnavailable"
              /\ Len(spawned') = 0 <=> cachedPath' = NoPath
              /\ Len(spawned') = 1 => ExitDecides(spawned'[1], exc', "none")
      ]_vars

C13_Witness ==
    /\ cres = "CalledProcessError"
    /\ exc = "ToolUnavailable"
    /\ spawned = <<>>
    /\ cmd # <<>>

\* the encryption attribute the caller gave, "" if none
GivenEncryption(kw) ==
    IF HasKey(kw, "encryption")
    THEN kw[CHOOSE i \in 1..Len(kw) : kw[i][1] = "encryption"][2]
    ELSE ""

\* C15: the arguments initremote passes to the backing tool are 'initremote',
\* the name, type=<type> and then the attributes, among them exactly one
\* encryption attribute: the caller's, unchanged, if the caller gave one, and
\* encryption=none exactly when the caller gave none; the caller's other
\* attributes are all passed on.
C15_EncryptionDefault ==
    [][ (initremote /\ spawned' # <<>>) =>
          LET a   == spawned'[1].arg
              enc == { i \in 1..Len(a) : a[i][1] = "encryption" }
              given == GivenEncryption(remote.kw)
          IN  /\ a[1] = <<"initremote">>
              /\ a[2] = <<remote.name>>
              /\ a[3] = <<"type", "=", remote.type>>
              /\ Cardinality(enc) = 1
              /\ \A i \in enc :
                    /\ i > 3
                    /\ a[i][3] = IF given = "" THEN "none" ELSE given
              /\ \A k \in 1..Len(remote.kw) : \E i \in 4..Len(a) :
                    a[i] = <<remote.kw[k][1], "=", remote.kw[k][2]>>
              /\ Len(a) = 3 + Len(remote.kw) + (IF given = "" THEN 1 ELSE 0)
      ]_vars

C15_Witness ==
    /\ spawned # <<>>
    /\ spawned[1].sub = "initremote"
    /\ Len(spawned[1].arg) = 5
    /\ remote.kw = << <<"encryption", "shared">>, <<"bucket", "b">> >>
    /\ spawned[1].arg[4] = <<"bucket", "=", "b">>
    /\ spawned[1].arg[5] = <<"encryption", "=", "shared">>

----------------------------------------------------------------------------
(* Properties of the order of resolution, of drop and of the tool's arguments *)

\* the positions of the events of method i in a trace
EventsOf(tr, what, i) == { k \in 1..Len(tr) : tr[k] = Ev(what, i) }

\* C16: a resolution goes through the install methods in the order __init__
\* declared them (the conda package first): the events of a method come after
\* those of every earlier one, a method is looked at only if every earlier
\* method is unusable or failed its probe, its install action runs at most
\* once per process, and the first method to pass its probe ends the
\* resolution: its path is cached and returned and no later method is
\* checked, installed or probed.
C16_DeclaredOrder ==
    [][ (install_and_get_path_call \/ execute_call) =>
          LET tr == lastTrace' IN
          /\ cachedPath # NoPath => (tr = <<>> /\ attempted' = attempted)
          /\ tr # <<>> => (tr[1] = Ev("check", 1) /\ methods[1].kind = "CondaPackage")
          /\ \A k, l \in 1..Len(tr) : k < l => tr[k].m <= tr[l].m
          /\ \A k \in 1..Len(tr) : \A j \in 1..(tr[k].m - 1) :
                 ~(env'[j].present /\ env'[j].verifies)
          /\ \A i \in 1..Len(methods) :
                 /\ Cardinality(EventsOf(tr, "install", i)) <= 1
                 /\ EventsOf(tr, "install", i) # {} => (i \notin attempted /\ i \in attempted')
                 /\ (i \in attempted /\ cachedPath = NoPath) => i \in attempted'
                 /\ EventsOf(tr, "verify", i) # {} => env'[i].present
          /\ (cachedPath = NoPath /\ cachedPath' # NoPath) =>
                 /\ tr # <<>>
                 /\ LET last == tr[Len(tr)] IN
                       /\ last.ev = "verify"
                       /\ env'[last.m].verifies
                       /\ cachedPath' = methods[last.m].path
                       /\ cachedPath' \in returned'
          /\ (cachedPath = NoPath /\ cachedPath' = NoPath) =>
                 \A i \in 1..Len(methods) :
                     /\ EventsOf(tr, "check", i) # {}
                     /\ ~(env'[i].present /\ env'[i].verifies)
      ]_vars

C16_Witness ==
    /\ methods = MvicunaMethods
    /\ lastTrace = << Ev("check", 1), Ev("install", 1), Ev("check", 1),
                      Ev("check", 2), Ev("verify", 2) >>
    /\ attempted = {1}
    /\ cachedPath = MvicunaMethods[2].path
    /\ returned = {cachedPath}

\* C17: a drop that finds the terminal object not a regular file runs no child
\* process and changes nothing; and a successful drop followed by a successful
\* drop of the same path asks for the removal at most once in total, the
\* second call removing nothing.
C17_DropIdempotent ==
    /\ ( Finished("drop") /\ ~isfile(fs0, cwd0, path0) )
       => (spawned = <<>> /\ fs = fs0 /\ cwd = cwd0)
    /\ ( /\ Finished("drop") /\ result = "ok"
         /\ prev.op = "drop" /\ prev.result = "ok"
         /\ prev.path = path0 /\ prev.cwd0 = cwd0 )
       => /\ spawned = <<>> /\ fs = fs0
          /\ Len(prev.spawned) + Len(spawned) <= 1

C17_Witness ==
    /\ Finished("drop") /\ result = "ok" /\ spawned = <<>>
    /\ prev.op = "drop" /\ prev.result = "ok" /\ prev.path = path0
    /\ path0 = <<"data", "t">>
    /\ Len(prev.spawned) = 1 /\ prev.spawned[1].sub = "drop"
    /\ Kind(prev.fs0, Obj1) = "file" /\ Kind(fs, Obj1) = "absent"

\* C18 (as the claim states it): the backing tool is given the basename of
\* the store object and runs in the directory that holds the object.
C18_ObjectNameAndDir ==
    (op \in {"get", "drop"} /\ IntoStore(fs0, cwd0, path0))
    => \A k \in 1..Len(spawned) :
           /\ spawned[k].arg = basename(Terminal(fs0, cwd0, path0))
           /\ spawned[k].cwd = Parent(Terminal(fs0, cwd0, path0))

\* C18 (amended): the backing tool is given one file argument, the basename
\* of the path the chain resolution stopped at, and runs in the directory of
\* that path; for a chain that reaches the store that path is the last
\* symlink, the one whose target points into the store, not the object.
C18_LinkNameAndDir ==
    op \in {"get", "drop"}
    => \A k \in 1..Len(spawned) :
           /\ spawned[k].sub = op
           /\ spawned[k].arg = basename(f)
           /\ spawned[k].cwd = stat(fs0, cwd0, dirname(abspath(cwd0, f)))
           /\ lstat(fs0, spawned[k].cwd, spawned[k].arg) = lstat(fs0, cwd0, f)
           /\ IntoStore(fs0, cwd0, path0) =>
                 /\ islink(fs0, cwd0, f)
                 /\ HasMarker(readlink(fs0, cwd0, f))
                 /\ stat(fs0, spawned[k].cwd, spawned[k].arg) = Terminal(fs0, cwd0, path0)

C18_Witness ==
    /\ Finished("get") /\ result = "ok"
    /\ path0 = <<"u">> /\ hops = 2 /\ cwd0 = W
    /\ Len(spawned) = 1
    /\ spawned[1].arg = <<"s">> /\ spawned[1].cwd = Data
    /\ Terminal(fs0, cwd0, path0) = Obj1

====
